---- MODULE Spec2Model ----
(***************************************************************************)
(* Model of the typing-speed test in src/main.py: the session loop of      *)
(* main() (one action per branch of its key dispatch), the pure helpers    *)
(* calculate_scroll_window and calculate_metrics, the insertion-ordered    *)
(* missed-character dictionary, and what display_text_with_cursor and     *)
(* display_results put on the screen.                                      *)
(*                                                                         *)
(* Characters are one-character strings; a text is a sequence of them.     *)
(* Python positions are 0-based, so position p of a text s is s[p + 1].    *)
(* Floats (accuracy, wpm) are kept as exact fractions <<num, den>>.        *)
(* metrics and scroll hold at most one record: <<>> until it is computed.  *)
(* frame is what display_text_with_cursor drew last (<<>>: nothing yet),   *)
(* results the histogram lines display_results printed.                    *)
(***************************************************************************)
EXTENDS Integers, Sequences, FiniteSets, TLC

VARIABLES target_text, typed_text, current_pos, all_typed_chars,
          wrong_typed_chars, missed_chars, start_time, char, pc, metrics,
          appended, script, fed, scroll, frame, results

vars == <<target_text, typed_text, current_pos, all_typed_chars,
          wrong_typed_chars, missed_chars, start_time, char, pc, metrics,
          appended, script, fed, scroll, frame, results>>

\* ------------------------------------------------------------------ keys
ETX == "^C"    \* ord(char) == 3
DEL == "^?"    \* ord(char) == 127
TAB == "\t"
NL == "\n"
CR == "\r"
SP == " "

None == "None"

\* ---------------------------------------------------------------- bounds
MaxLen == 3        \* longest enumerated target text
MaxTyped == 4      \* keys are read while all_typed_chars is below this
MaxElapsed == 2    \* elapsed seconds measured at completion: 0..MaxElapsed
MaxScript == 4     \* longest enumerated key script
MaxScriptLen == 2  \* longest target text the enumerated scripts run on
MaxExactLen == 4   \* longest target text typed out exactly
MaxScrollLen == 5  \* longest target text given to the scroll planner
MaxHeight == 9     \* terminal heights 0..MaxHeight
MaxRenderLen == 3  \* longest target text of the sessions with frames
MaxRenderTyped == 3   \* keys read in the sessions with frames
MaxHistTyped == 13    \* keys read in the sessions run for the histogram

\* --------------------------------------------------------- text helpers
Texts(A, n) == UNION {[1..k -> A] : k \in 0..n}

Min(a, b) == IF a < b THEN a ELSE b
Max(a, b) == IF a > b THEN a ELSE b

\* s[a:b] for 0 <= a, 0 <= b
Slice(s, a, b) == SubSeq(s, a + 1, Min(b, Len(s)))

\* s.find(c, start): lowest index >= start holding c, -1 when there is none
RECURSIVE find(_, _, _)
find(s, c, start) ==
    IF start >= Len(s) THEN -1
    ELSE IF s[start + 1] = c THEN start
    ELSE find(s, c, start + 1)

\* s.rfind(c, 0, end): highest index < end holding c, -1 when there is none
RECURSIVE rfind(_, _, _)
rfind(s, c, end) ==
    IF end <= 0 THEN -1
    ELSE IF s[end] = c THEN end - 1
    ELSE rfind(s, c, end - 1)

\* s.split('\n')
RECURSIVE split(_)
split(s) ==
    LET i == find(s, NL, 0) IN
    IF i = -1 THEN <<s>>
    ELSE <<Slice(s, 0, i)>> \o split(Slice(s, i + 1, Len(s)))

\* the loop "for c in line: if c in ('\t', ' '): indent += c else: break"
RECURSIVE leading_indent(_)
leading_indent(line) ==
    IF line = <<>> THEN <<>>
    ELSE IF Head(line) \in {TAB, SP}
         THEN <<Head(line)>> \o leading_indent(Tail(line))
         ELSE <<>>

\* ------------------------------------------- missed_chars (defaultdict)
\* A dict keeps insertion order: a sequence of <<key, count>>.
RECURSIVE dict_incr(_, _)
dict_incr(d, k) ==
    IF d = <<>> THEN <<<<k, 1>>>>
    ELSE IF Head(d)[1] = k THEN <<<<k, Head(d)[2] + 1>>>> \o Tail(d)
    ELSE <<Head(d)>> \o dict_incr(Tail(d), k)

\* ------------------------------------------------------ calculate_metrics
\* sum(1 for i, c in enumerate(typed_text)
\*       if i < len(target_text) and c == target_text[i]), from position i on
RECURSIVE correct_from(_, _, _)
correct_from(target, typed, i) ==
    IF i >= Len(typed) THEN 0
    ELSE (IF i < Len(target) /\ typed[i + 1] = target[i + 1] THEN 1 ELSE 0)
         + correct_from(target, typed, i + 1)

\* Seeded fault: accuracy taken over the final buffer instead of over every
\* character ever typed.
calculate_metrics_final_buffer(target, typed, elapsed_time, all_typed, wrong_typed) ==
    LET correct_chars == correct_from(target, typed, 0)
        accuracy == IF Len(typed) > 0 THEN <<correct_chars * 100, Len(typed)>>
                    ELSE <<0, 1>>
        wpm == IF elapsed_time > 0
               THEN <<(all_typed - wrong_typed) * 60 * accuracy[1],
                      5 * elapsed_time * accuracy[2] * 100>>
               ELSE <<0, 1>>
    IN [total_chars |-> Len(target),
        typed_chars |-> Len(typed),
        correct_chars |-> correct_chars,
        all_typed_chars |-> all_typed,
        wrong_typed_chars |-> wrong_typed,
        wpm |-> wpm,
        accuracy |-> accuracy,
        time |-> elapsed_time]

\* elapsed_time is in whole seconds, so minutes = elapsed_time / 60 and
\* wpm = ((all - wrong) / 5) / minutes * accuracy / 100
calculate_metrics(target, typed, elapsed_time, all_typed, wrong_typed) ==
    LET correct_chars == correct_from(target, typed, 0)
        accuracy == IF all_typed > 0 THEN <<correct_chars * 100, all_typed>>
                    ELSE <<0, 1>>
        wpm == IF elapsed_time > 0
               THEN <<(all_typed - wrong_typed) * 60 * accuracy[1],
                      5 * elapsed_time * accuracy[2] * 100>>
               ELSE <<0, 1>>
    IN [total_chars |-> Len(target),
        typed_chars |-> Len(typed),
        correct_chars |-> correct_chars,
        all_typed_chars |-> all_typed,
        wrong_typed_chars |-> wrong_typed,
        wpm |-> wpm,
        accuracy |-> accuracy,
        time |-> elapsed_time]

\* ------------------------------------------------ calculate_scroll_window
\* the loop that finds the line the cursor is on; cursor_line stays 0 when
\* no line satisfies the test
\* Seeded fault: a cursor on a newline counted to the line after it.
reaches_cursor_strict(char_count, line, pos) == char_count + Len(line) > pos

\* if char_count + len(line) >= current_pos
reaches_cursor(char_count, line, pos) == char_count + Len(line) >= pos

RECURSIVE cursor_line_from(_, _, _, _)
cursor_line_from(lines, pos, line_idx, char_count) ==
    IF line_idx >= Len(lines) THEN 0
    ELSE IF reaches_cursor(char_count, lines[line_idx + 1], pos) THEN line_idx
    ELSE cursor_line_from(lines, pos, line_idx + 1,
                          char_count + Len(lines[line_idx + 1]) + 1)

header_lines == 5

\* Python's // rounds toward minus infinity
FloorDiv2(n) == IF n >= 0 THEN n \div 2 ELSE -((1 - n) \div 2)

\* Seeded fault: no adjustment when the window reaches the last line.
calculate_scroll_window_no_pullback(target, pos, terminal_height) ==
    LET lines == split(target)
        available_lines == terminal_height - header_lines
        cursor_line == cursor_line_from(lines, pos, 0, 0)
        center_offset == FloorDiv2(available_lines)
        start_line == Max(0, cursor_line - center_offset)
        end_line == Min(Len(lines), start_line + available_lines)
    IN <<start_line, end_line>>

\* Seeded fault: the end-of-text adjustment without its max(0, ...).
calculate_scroll_window_unclamped(target, pos, terminal_height) ==
    LET lines == split(target)
        available_lines == terminal_height - header_lines
        cursor_line == cursor_line_from(lines, pos, 0, 0)
        center_offset == FloorDiv2(available_lines)
        start_line == Max(0, cursor_line - center_offset)
        end_line == Min(Len(lines), start_line + available_lines)
    IN IF end_line = Len(lines)
       THEN <<end_line - available_lines, end_line>>
       ELSE <<start_line, end_line>>

calculate_scroll_window(target, pos, terminal_height) ==
    LET lines == split(target)
        available_lines == terminal_height - header_lines
        cursor_line == cursor_line_from(lines, pos, 0, 0)
        center_offset == FloorDiv2(available_lines)
        start_line == Max(0, cursor_line - center_offset)
        end_line == Min(Len(lines), start_line + available_lines)
    IN IF end_line = Len(lines)
       THEN <<Max(0, end_line - available_lines), end_line>>
       ELSE <<start_line, end_line>>

\* ------------------------------------------------------- display_results
\* Seeded fault: an item put ahead of the items of equal count.
stays_ahead_strict(placed, item) == placed[2] > item[2]

\* key=lambda x: x[1], reverse=True: an item already placed stays ahead of
\* a later item of the dict unless its count is smaller (the sort is stable)
stays_ahead(placed, item) == placed[2] >= item[2]

RECURSIVE insert_desc(_, _)
insert_desc(sorted, item) ==
    IF sorted = <<>> THEN <<item>>
    ELSE IF stays_ahead(Head(sorted), item)
         THEN <<Head(sorted)>> \o insert_desc(Tail(sorted), item)
         ELSE <<item>> \o sorted

\* sorted(missed_chars.items(), ...), items being what is left to place
RECURSIVE sorted_from(_, _)
sorted_from(items, placed) ==
    IF items = <<>> THEN placed
    ELSE sorted_from(Tail(items), insert_desc(placed, Head(items)))

top_shown == 10

\* The <<char, count>> lines printed under "Most Missed Characters".
display_results(missed) ==
    LET sorted_missed == sorted_from(missed, <<>>)
    IN SubSeq(sorted_missed, 1, Min(top_shown, Len(sorted_missed)))

\* ---------------------------------------------- display_text_with_cursor
\* Seeded fault: the newlines of the lines scrolled off are not counted.
line_span_no_newline(line) == Len(line)

\* char_count += len(lines[i]) + 1
line_span(line) == Len(line) + 1

\* the offset of line start_line: the loop over range(start_line)
RECURSIVE offset_of(_, _)
offset_of(lines, start_line) ==
    IF start_line = 0 THEN 0
    ELSE offset_of(lines, start_line - 1) + line_span(lines[start_line])

\* the colour chosen for the target character at abs_pos
classify(target, typed, pos, abs_pos) ==
    IF abs_pos < Len(typed)
    THEN IF typed[abs_pos + 1] = target[abs_pos + 1]
         THEN "Correct" ELSE "Incorrect"
    ELSE IF abs_pos = pos THEN "PendingCursor"
    ELSE "Untouched"

\* the rows printed for lines line_idx .. end_line - 1, char_count being
\* the offset of line line_idx; eol tells that the row ends with the
\* highlighted return sign
RECURSIVE rows_from(_, _, _, _, _, _, _)
rows_from(lines, target, typed, pos, line_idx, end_line, char_count) ==
    IF line_idx >= end_line THEN <<>>
    ELSE LET line == lines[line_idx + 1]
             cells == [char_idx \in 1..Len(line) |->
                         [abs_pos |-> char_count + char_idx - 1,
                          class |-> classify(target, typed, pos,
                                             char_count + char_idx - 1)]]
             end_of_line_pos == char_count + Len(line)
             row == [line_idx |-> line_idx,
                     cells |-> cells,
                     eol |-> end_of_line_pos = pos /\ line_idx < Len(lines) - 1]
         IN <<row>> \o rows_from(lines, target, typed, pos, line_idx + 1,
                                 end_line,
                                 char_count + Len(line)
                                   + (IF line_idx < Len(lines) - 1 THEN 1 ELSE 0))

\* lines[i] for i in range(start_line) raises IndexError when start_line is
\* past the last line
display_raises(target, pos, terminal_height) ==
    calculate_scroll_window(target, pos, terminal_height)[1] > Len(split(target))

\* The frame drawn; typed_text, current_pos and terminal_height are the
\* arguments of the call, cursor_line is the line calculate_scroll_window
\* found for the cursor.
display_text_with_cursor(target, typed, pos, terminal_height) ==
    LET lines == split(target)
        window == calculate_scroll_window(target, pos, terminal_height)
    IN [typed_text |-> typed,
        current_pos |-> pos,
        terminal_height |-> terminal_height,
        cursor_line |-> cursor_line_from(lines, pos, 0, 0),
        start_line |-> window[1],
        end_line |-> window[2],
        rows |-> rows_from(lines, target, typed, pos, window[1], window[2],
                           offset_of(lines, window[1]))]

\* ---------------------------------------------------- the session loop
\* Seeded fault: the check loop run over every inserted position, also past
\* the end of the target.
check_stop_unclamped(hi, target) == hi

\* The check loop of the tab and autoindent branches:
\*   for i in range(lo, min(hi, len(target_text))):
\*       if i >= len(target_text) or typed_text[i] != target_text[i]: ...
\* returns <<wrong_typed_chars, missed_chars>> after the loop.
check_stop(hi, target) == Min(hi, Len(target))

RECURSIVE check_range(_, _, _, _, _, _)
check_range(i, stop, target, typed, wrong, missed) ==
    IF i >= stop THEN <<wrong, missed>>
    ELSE IF i >= Len(target) \/ typed[i + 1] # target[i + 1]
         THEN check_range(i + 1, stop, target, typed, wrong + 1,
                          IF i < Len(target)
                          THEN dict_incr(missed, target[i + 1]) ELSE missed)
         ELSE check_range(i + 1, stop, target, typed, wrong, missed)

\* Seeded fault: the last target position taken to be out of range.
check_one_short(pos, target, c, wrong, missed) ==
    IF pos >= Len(target) - 1 \/ c # target[pos + 1]
    THEN <<wrong + 1,
           IF pos < Len(target) THEN dict_incr(missed, target[pos + 1])
           ELSE missed>>
    ELSE <<wrong, missed>>

\* The check of one position, in the printable and the dedent branch:
\*   if current_pos >= len(target_text) or c != target_text[current_pos]: ...
check_one(pos, target, c, wrong, missed) ==
    IF pos >= Len(target) \/ c # target[pos + 1]
    THEN <<wrong + 1,
           IF pos < Len(target) THEN dict_incr(missed, target[pos + 1])
           ELSE missed>>
    ELSE <<wrong, missed>>

\* lines 252-261: indentation of the target line the cursor is on
current_indent_of(target, pos) ==
    LET target_line_start == rfind(target, NL, pos) + 1
        target_line_end == IF find(target, NL, target_line_start) # -1
                           THEN find(target, NL, target_line_start)
                           ELSE Len(target)
    IN leading_indent(Slice(target, target_line_start, target_line_end))

\* Seeded fault: the next line's indentation read from the cursor position
\* instead of from the position after it.
next_indent_of_from_cursor(target, pos) ==
    LET next_line_start == pos
        next_line_end == IF find(target, NL, next_line_start) # -1
                         THEN find(target, NL, next_line_start)
                         ELSE Len(target)
    IN leading_indent(Slice(target, next_line_start, next_line_end))

\* lines 264-273: indentation of the text after the cursor position
next_indent_of(target, pos) ==
    LET next_line_start == pos + 1
        next_line_end == IF find(target, NL, next_line_start) # -1
                         THEN find(target, NL, next_line_start)
                         ELSE Len(target)
    IN leading_indent(Slice(target, next_line_start, next_line_end))

\* typed_text += '  '
tab_block == <<SP, SP>>

Frame == UNCHANGED <<target_text, metrics, scroll, results>>

\* Seeded fault: the interrupt key read as a key that does nothing.
InterruptIgnored ==
    UNCHANGED <<typed_text, current_pos, all_typed_chars,
                wrong_typed_chars, missed_chars, appended, pc>>

\* ord(char) == 3: raise KeyboardInterrupt, caught at line 313
Interrupt ==
    /\ pc' = "cancelled"
    /\ UNCHANGED <<typed_text, current_pos, all_typed_chars,
                   wrong_typed_chars, missed_chars, appended>>

\* Seeded fault: a backspace that forgets to move the cursor back.
BackspaceKeepsCursor ==
    /\ IF typed_text # <<>>
       THEN /\ typed_text' = SubSeq(typed_text, 1, Len(typed_text) - 1)
            /\ UNCHANGED current_pos
       ELSE UNCHANGED <<typed_text, current_pos>>
    /\ UNCHANGED <<all_typed_chars, wrong_typed_chars, missed_chars,
                   appended, pc>>

\* Seeded fault: a backspace that takes the removed character back out of
\* the cumulative counter.
BackspaceRollsBack ==
    /\ IF typed_text # <<>>
       THEN /\ typed_text' = SubSeq(typed_text, 1, Len(typed_text) - 1)
            /\ current_pos' = Max(0, current_pos - 1)
            /\ all_typed_chars' = all_typed_chars - 1
       ELSE UNCHANGED <<typed_text, current_pos, all_typed_chars>>
    /\ UNCHANGED <<wrong_typed_chars, missed_chars, appended, pc>>

\* ord(char) == 127
Backspace ==
    /\ IF typed_text # <<>>
       THEN /\ typed_text' = SubSeq(typed_text, 1, Len(typed_text) - 1)
            /\ current_pos' = Max(0, current_pos - 1)
       ELSE UNCHANGED <<typed_text, current_pos>>
    /\ UNCHANGED <<all_typed_chars, wrong_typed_chars, missed_chars,
                   appended, pc>>

\* Seeded fault: a tab counted as one typed character.
TabCountsOne ==
    LET typed == typed_text \o tab_block
        res == check_range(current_pos, check_stop(current_pos + 2, target_text),
                           target_text, typed, wrong_typed_chars, missed_chars)
    IN /\ typed_text' = typed
       /\ all_typed_chars' = all_typed_chars + 1
       /\ wrong_typed_chars' = res[1]
       /\ missed_chars' = res[2]
       /\ current_pos' = current_pos + 2
       /\ appended' = appended + (Len(typed) - Len(typed_text))
       /\ UNCHANGED pc

\* Seeded fault: a tab that inserts only as many spaces as the target has
\* characters left.
TabClamped ==
    LET typed == typed_text \o SubSeq(tab_block, 1,
                                      Min(2, Len(target_text) - current_pos))
        res == check_range(current_pos, check_stop(current_pos + 2, target_text),
                           target_text, typed, wrong_typed_chars, missed_chars)
    IN /\ typed_text' = typed
       /\ all_typed_chars' = all_typed_chars + Len(typed) - Len(typed_text)
       /\ wrong_typed_chars' = res[1]
       /\ missed_chars' = res[2]
       /\ current_pos' = Len(typed)
       /\ appended' = appended + (Len(typed) - Len(typed_text))
       /\ UNCHANGED pc

\* char == '\t'
Tab ==
    LET typed == typed_text \o tab_block
        res == check_range(current_pos, check_stop(current_pos + 2, target_text),
                           target_text, typed, wrong_typed_chars, missed_chars)
    IN /\ typed_text' = typed
       /\ all_typed_chars' = all_typed_chars + 2
       /\ wrong_typed_chars' = res[1]
       /\ missed_chars' = res[2]
       /\ current_pos' = current_pos + 2
       /\ appended' = appended + (Len(typed) - Len(typed_text))
       /\ UNCHANGED pc

\* Seeded fault: the autoindent block appended even when the next line dedents.
dedents_never(next_indent, current_indent) == FALSE

\* Seeded fault: an equally indented next line taken for a dedent.
dedents_or_equal(next_indent, current_indent) ==
    Len(next_indent) <= Len(current_indent)

\* if len(next_indent) < len(current_indent)
dedents(next_indent, current_indent) == Len(next_indent) < Len(current_indent)

\* char == '\n' or char == '\r'
Enter ==
    LET current_indent == current_indent_of(target_text, current_pos)
        next_indent == next_indent_of(target_text, current_pos)
    IN IF dedents(next_indent, current_indent)
       THEN LET typed == typed_text \o <<NL>>
                res == check_one(current_pos, target_text,
                                 typed[current_pos + 1],
                                 wrong_typed_chars, missed_chars)
            IN /\ typed_text' = typed
               /\ all_typed_chars' = all_typed_chars + 1
               /\ wrong_typed_chars' = res[1]
               /\ missed_chars' = res[2]
               /\ current_pos' = current_pos + 1
               /\ appended' = appended + (Len(typed) - Len(typed_text))
               /\ UNCHANGED pc
       ELSE LET indent_to_add == <<NL>> \o current_indent
                typed == typed_text \o indent_to_add
                res == check_range(current_pos,
                                   check_stop(current_pos + Len(indent_to_add),
                                              target_text),
                                   target_text, typed,
                                   wrong_typed_chars, missed_chars)
            IN /\ typed_text' = typed
               /\ all_typed_chars' = all_typed_chars + Len(indent_to_add)
               /\ wrong_typed_chars' = res[1]
               /\ missed_chars' = res[2]
               /\ current_pos' = current_pos + Len(indent_to_add)
               /\ appended' = appended + (Len(typed) - Len(typed_text))
               /\ UNCHANGED pc

\* any other character
Printable(c) ==
    LET typed == Append(typed_text, c)
        res == check_one(current_pos, target_text, c,
                         wrong_typed_chars, missed_chars)
    IN /\ typed_text' = typed
       /\ all_typed_chars' = all_typed_chars + 1
       /\ wrong_typed_chars' = res[1]
       /\ missed_chars' = res[2]
       /\ current_pos' = current_pos + 1
       /\ appended' = appended + (Len(typed) - Len(typed_text))
       /\ UNCHANGED pc

\* One iteration of "while current_pos < len(target_text)" reading key c:
\* get_char, the timer start and the if/elif chain of lines 234-304.
Keyed(c) ==
    /\ pc = "loop"
    /\ current_pos < Len(target_text)
    /\ char' = c
    /\ start_time' = IF start_time = None THEN "set" ELSE start_time
    /\ IF c = ETX THEN Interrupt
       ELSE IF c = DEL THEN Backspace
       ELSE IF c = TAB THEN Tab
       ELSE IF c = NL \/ c = CR THEN Enter
       ELSE Printable(c)
    /\ Frame

\* One iteration whose frame is not recorded.
Iteration(c) == Keyed(c) /\ UNCHANGED frame

\* One iteration on a terminal of the given height, lines 224-304: the
\* frame is drawn from the state before the key, which is one of keys; an
\* IndexError raised while drawing is caught by the handler of line 319
\* (exit code 1).
DrawnIteration(terminal_height, keys) ==
    IF display_raises(target_text, current_pos, terminal_height)
    THEN /\ pc = "loop"
         /\ current_pos < Len(target_text)
         /\ pc' = "error"
         /\ UNCHANGED <<target_text, typed_text, current_pos, all_typed_chars,
                        wrong_typed_chars, missed_chars, start_time, char,
                        metrics, appended, scroll, frame, results>>
    ELSE /\ frame' = <<display_text_with_cursor(target_text, typed_text,
                                                 current_pos, terminal_height)>>
         /\ \E c \in keys : Keyed(c)

\* Loop exit, lines 306-311; time.time() - None raises TypeError, which
\* the handler of line 319 turns into exit code 1.
Finish ==
    /\ pc = "loop"
    /\ ~(current_pos < Len(target_text))
    /\ IF start_time = None
       THEN /\ pc' = "error"
            /\ UNCHANGED <<metrics, results>>
       ELSE \E elapsed_time \in 0..MaxElapsed :
            /\ metrics' = <<calculate_metrics(target_text, typed_text,
                                              elapsed_time, all_typed_chars,
                                              wrong_typed_chars)>>
            /\ results' = display_results(missed_chars)
            /\ pc' = "done"
    /\ UNCHANGED <<target_text, typed_text, current_pos, all_typed_chars,
                   wrong_typed_chars, missed_chars, start_time, char,
                   appended, script, fed, scroll, frame>>

\* ------------------------------------------------------- specifications
ScenarioC == <<SP, SP, "x", NL, SP, SP, "y">>       \* "  x\n  y"
ScenarioA == <<"a", "b", NL, "c", "d">>             \* "ab\ncd"
ScenarioB == <<"a", "b">>                           \* "ab"

TargetAlphabet == {"a", SP, NL, TAB}
Targets == Texts(TargetAlphabet, MaxLen) \cup {ScenarioC}

Range(s) == {s[i] : i \in 1..Len(s)}

\* Keys that reach the last branch of the dispatch: the characters of the
\* target that are typed literally, and "x" for a character that matches
\* no target position.
PrintableKeys(target) == (Range(target) \cup {"x"}) \ {ETX, DEL, TAB, NL, CR}

InitSession(targets) ==
    /\ target_text \in targets
    /\ typed_text = <<>>
    /\ start_time = None
    /\ current_pos = 0
    /\ all_typed_chars = 0
    /\ wrong_typed_chars = 0
    /\ missed_chars = <<>>
    /\ char = None
    /\ pc = "loop"
    /\ metrics = <<>>
    /\ appended = 0
    /\ fed = 0
    /\ scroll = <<>>
    /\ frame = <<>>
    /\ results = <<>>

Init == InitSession(Targets) /\ script = <<>>

Reading == all_typed_chars < MaxTyped /\ UNCHANGED <<script, fed>>

PressInterrupt == Reading /\ Iteration(ETX)

PressBackspace == Reading /\ Iteration(DEL)

PressTab == Reading /\ Iteration(TAB)

PressEnter == Reading /\ \E c \in {NL, CR} : Iteration(c)

PressPrintable == Reading /\ \E c \in PrintableKeys(target_text) : Iteration(c)

Next ==
    \/ PressInterrupt
    \/ PressBackspace
    \/ PressTab
    \/ PressEnter
    \/ PressPrintable
    \/ Finish

Spec == Init /\ [][Next]_vars

\* Scripted sessions: the keys come from a script fixed at the start.
ScriptAlphabet == {"a", "b"}
ScriptKeys == {"a", "b", "x", DEL, TAB, CR}
ScriptTargets == Texts(ScriptAlphabet, MaxScriptLen)
Scripts == Texts(ScriptKeys, MaxScript) \cup {<<"x", DEL, "a", "b">>}

\* Exact typing: the key for each target character in order, the Enter key
\* (which sends enter: '\r' in raw mode, or '\n') for each newline.
ExactAlphabet == {"a", "b", SP, NL, TAB, CR, DEL, ETX}
ExactTargets == Texts(ExactAlphabet, MaxExactLen) \cup {ScenarioA}
ExactScript(target, enter) ==
    [i \in 1..Len(target) |-> IF target[i] = NL THEN enter ELSE target[i]]

InitScript ==
    /\ \/ InitSession(ScriptTargets) /\ script \in Scripts
       \/ /\ InitSession(ExactTargets)
          /\ script \in {ExactScript(target_text, enter) : enter \in {NL, CR}}

Feed ==
    /\ fed < Len(script)
    /\ Iteration(script[fed + 1])
    /\ fed' = fed + 1
    /\ UNCHANGED script

NextScript ==
    \/ Feed
    \/ Finish

SpecScript == InitScript /\ [][NextScript]_vars

\* The scroll planner on its own: any cursor position of the target and any
\* terminal height.
ScrollTargets == Texts({"a", NL}, MaxScrollLen)

InitScroll == InitSession(ScrollTargets) /\ script = <<>>

ScrollCall ==
    /\ \E pos \in 0..Len(target_text), terminal_height \in 0..MaxHeight :
          scroll' = <<[pos |-> pos,
                       terminal_height |-> terminal_height,
                       window |-> calculate_scroll_window(target_text, pos,
                                                          terminal_height)]>>
    /\ UNCHANGED <<target_text, typed_text, current_pos, all_typed_chars,
                   wrong_typed_chars, missed_chars, start_time, char, pc,
                   metrics, appended, script, fed, frame, results>>

NextScroll == ScrollCall

SpecScroll == InitScroll /\ [][NextScroll]_vars

\* Sessions whose frames are recorded, on terminals of any height.
RenderTargets == Texts({"a", NL}, MaxRenderLen)
RenderKeys == {"a", CR, DEL, TAB, ETX}

InitRender == InitSession(RenderTargets) /\ script = <<>>

DrawAndPress ==
    /\ all_typed_chars < MaxRenderTyped
    /\ \E terminal_height \in 0..MaxHeight :
          DrawnIteration(terminal_height, RenderKeys)
    /\ UNCHANGED <<script, fed>>

NextRender ==
    \/ DrawAndPress
    \/ Finish

SpecRender == InitRender /\ [][NextRender]_vars

\* Sessions that miss more characters than the results list shows (a wrong
\* key or backspace at every position of twelve letters), and sessions on
\* three letters with a wrong key, the right key or backspace.
TwelveLetters == <<"a", "b", "c", "d", "e", "f", "g", "h", "i", "j", "k", "l">>
HistTargets == {TwelveLetters, <<"a", "b", "a">>, <<"a", "b", "c">>}

HistKeys(target, pos) ==
    IF Len(target) > top_shown THEN {"x", DEL}
    ELSE {"x", DEL, target[pos + 1]}

InitHist == InitSession(HistTargets) /\ script = <<>>

PressHist ==
    /\ all_typed_chars < MaxHistTyped
    /\ current_pos < Len(target_text)
    /\ \E c \in HistKeys(target_text, current_pos) : Iteration(c)
    /\ UNCHANGED <<script, fed>>

NextHist ==
    \/ PressHist
    \/ Finish

SpecHist == InitHist /\ [][NextHist]_vars

\* ================================================================ claims
\* A step that runs one loop iteration starts in a state satisfying InLoop;
\* the key it read is then char'.
InLoop == pc = "loop" /\ current_pos < Len(target_text)

\* C1: in every reachable state of the session loop the cursor position
\* equals the length of the typed buffer, so each event moves the cursor by
\* exactly the number of characters it appended to or removed from it.
C1_CursorIsBufferLength == current_pos = Len(typed_text)

\* a tab has just advanced the cursor by 2 after a backspace removed
\* something earlier
C1_Witness ==
    /\ char = TAB
    /\ current_pos = Len(typed_text)
    /\ current_pos >= 3
    /\ all_typed_chars > Len(typed_text)

\* C2 as stated: in every reachable state 0 <= cursor <= len(target), so
\* the loop is left with the cursor exactly at len(target).
C2_CursorWithinTarget == 0 <= current_pos /\ current_pos <= Len(target_text)

\* C2, amended: 0 <= cursor <= len(target) + 1; the cursor is past
\* len(target) only when the last key was a tab, and the loop is left with
\* the cursor at len(target) or, after such a tab, at len(target) + 1.
C2_CursorAtMostOnePast ==
    /\ 0 <= current_pos
    /\ current_pos <= Len(target_text) + 1
    /\ current_pos = Len(target_text) + 1 => char = TAB
    /\ pc = "done" => current_pos >= Len(target_text)

\* the loop ended one past the end of the target
C2_Witness ==
    /\ pc = "done"
    /\ char = TAB
    /\ current_pos = Len(target_text) + 1
    /\ Len(target_text) >= 2

\* C3: all_typed_chars and wrong_typed_chars never decrease, and
\* all_typed_chars equals the number of characters appended to the typed
\* buffer over the whole history, whatever backspace removed later.
C3_CountersOnlyGrow ==
    /\ [](all_typed_chars = appended)
    /\ [][/\ all_typed_chars' >= all_typed_chars
          /\ wrong_typed_chars' >= wrong_typed_chars]_vars

\* three characters were appended, two of them removed again
C3_Witness ==
    /\ all_typed_chars = 3
    /\ appended = 3
    /\ Len(typed_text) = 1
    /\ wrong_typed_chars >= 1

\* C4: a backspace leaves all_typed_chars, wrong_typed_chars and the
\* histogram unchanged; on a non-empty buffer it removes exactly the last
\* character and moves the cursor back by 1, on an empty buffer it leaves
\* buffer and cursor alone; the cursor never becomes negative.
C4_BackspaceFrame ==
    [][(InLoop /\ char' = DEL) =>
         /\ all_typed_chars' = all_typed_chars
         /\ wrong_typed_chars' = wrong_typed_chars
         /\ missed_chars' = missed_chars
         /\ IF Len(typed_text) > 0
            THEN /\ typed_text' \o <<typed_text[Len(typed_text)]>> = typed_text
                 /\ current_pos' = current_pos - 1
            ELSE /\ typed_text' = typed_text
                 /\ current_pos' = current_pos
         /\ current_pos' >= 0]_vars

\* a wrong character was typed and removed: the buffer is empty again and
\* both counters and the histogram still record it
C4_Witness ==
    /\ char = DEL
    /\ typed_text = <<>>
    /\ current_pos = 0
    /\ all_typed_chars = 1
    /\ wrong_typed_chars = 1
    /\ Len(missed_chars) = 1

\* Start of the target line holding position c: 0, or just after the nearest
\* newline before c.
LineStartOf(t, c) ==
    CHOOSE b \in 0..c :
        /\ b = 0 \/ t[b] = NL
        /\ \A j \in b..(c - 1) : t[j + 1] # NL

\* Length of the run of tabs and spaces of t that starts at position b.
IndentRunAt(t, b) ==
    CHOOSE k \in 0..(Len(t) - b) :
        /\ \A j \in 0..(k - 1) : t[b + j + 1] \in {TAB, SP}
        /\ b + k = Len(t) \/ t[b + k + 1] \notin {TAB, SP}

\* C5: Enter at cursor c takes currentIndent from the target line that
\* starts after the nearest newline before c and nextIndent from the target
\* text at c+1; a shorter nextIndent appends one newline (cursor + 1),
\* otherwise newline + currentIndent is appended as one block (cursor + 1 +
\* len(currentIndent)); "  x\n  y" at cursor 3 appends "\n  ", cursor + 3.
C5_EnterAutoindent ==
    [][(InLoop /\ char' \in {NL, CR}) =>
         LET c == current_pos
             b == LineStartOf(target_text, c)
             cur == IndentRunAt(target_text, b)
             nxt == IndentRunAt(target_text, c + 1)
         IN /\ IF nxt < cur
               THEN /\ typed_text' = typed_text \o <<NL>>
                    /\ current_pos' = c + 1
               ELSE /\ typed_text' = typed_text \o <<NL>>
                                       \o SubSeq(target_text, b + 1, b + cur)
                    /\ current_pos' = c + 1 + cur
            /\ (target_text = ScenarioC /\ c = 3) =>
                  /\ typed_text' = typed_text \o <<NL, SP, SP>>
                  /\ current_pos' = 6]_vars

\* "  x" typed on "  x\n  y", then Enter
C5_Witness ==
    /\ target_text = ScenarioC
    /\ char \in {NL, CR}
    /\ typed_text = <<SP, SP, "x", NL, SP, SP>>
    /\ current_pos = 6
    /\ wrong_typed_chars = 0

\* C6: a tab checks each of its 2 positions as a printable space typed
\* there would be checked: out of range or not a space counts one wrong
\* character (and the expected character, when in range, goes into the
\* histogram), also for the second position of a tab at len(target) - 1.
C6_TabChecksLikePrintable ==
    [][(InLoop /\ char' = TAB) =>
         LET first == check_one(current_pos, target_text, SP,
                                wrong_typed_chars, missed_chars)
             second == check_one(current_pos + 1, target_text, SP,
                                 first[1], first[2])
         IN /\ wrong_typed_chars' = second[1]
            /\ missed_chars' = second[2]]_vars

\* C7: a tab appends exactly 2 spaces, adds exactly 2 to all_typed_chars and
\* advances the cursor by exactly 2, whatever the target holds at and after
\* the cursor, also when fewer than 2 target characters remain.
C7_TabAppendsTwo ==
    [][(InLoop /\ char' = TAB) =>
         /\ typed_text' = typed_text \o <<SP, SP>>
         /\ all_typed_chars' = all_typed_chars + 2
         /\ current_pos' = current_pos + 2]_vars

\* a tab as the first key on a one-character target
C7_Witness ==
    /\ char = TAB
    /\ Len(target_text) = 1
    /\ typed_text = <<SP, SP>>
    /\ all_typed_chars = 2
    /\ current_pos = 2

\* Positions of the typed buffer that hold the target's character.
CorrectPositions ==
    {i \in 1..Len(typed_text) :
        i <= Len(target_text) /\ typed_text[i] = target_text[i]}

ScriptB == <<"x", DEL, "a", "b">>

\* C8: accuracy = correctChars / allTypedChars * 100 (0 when allTypedChars
\* is 0), correctChars counted on the final buffer and allTypedChars over
\* the whole history; target "ab" with keys x, backspace, a, b ends with
\* allTypedChars 3, wrongTypedChars 1, buffer "ab" and accuracy 2/3*100.
C8_AccuracyOverAllTyped ==
    pc = "done" =>
      /\ metrics[1].correct_chars = Cardinality(CorrectPositions)
      /\ metrics[1].all_typed_chars = appended
      /\ IF appended = 0
         THEN metrics[1].accuracy[1] = 0
         ELSE metrics[1].accuracy[1] * appended
                = Cardinality(CorrectPositions) * 100 * metrics[1].accuracy[2]
      /\ (target_text = ScenarioB /\ script = ScriptB) =>
            /\ metrics[1].all_typed_chars = 3
            /\ metrics[1].wrong_typed_chars = 1
            /\ typed_text = <<"a", "b">>
            /\ metrics[1].accuracy[1] * 3 = 200 * metrics[1].accuracy[2]
            /\ metrics[1].accuracy[1] # 100 * metrics[1].accuracy[2]

\* scenario B has run to completion
C8_Witness ==
    /\ pc = "done"
    /\ target_text = ScenarioB
    /\ script = ScriptB
    /\ fed = 4
    /\ metrics[1].correct_chars = 2
    /\ metrics[1].all_typed_chars = 3

\* The first character of every line is neither a space nor a tab.
NoLeadingWhitespace(t) ==
    \A i \in 1..Len(t) : t[i] \in {SP, TAB} => (i > 1 /\ t[i - 1] # NL)

ExactlyTyped ==
    \E enter \in {NL, CR} : script = ExactScript(target_text, enter)

\* No key of the script is left to read, or the loop is over.
ScriptEnded ==
    pc # "loop" \/ fed = Len(script) \/ current_pos >= Len(target_text)

TypedPerfectly ==
    /\ pc \in {"loop", "done"}
    /\ current_pos = Len(target_text)
    /\ typed_text = target_text
    /\ wrong_typed_chars = 0
    /\ missed_chars = <<>>
    /\ pc = "done" => metrics[1].accuracy[1] = 100 * metrics[1].accuracy[2]

\* C9 as stated: every non-empty target without leading whitespace and
\* without a tab, typed character by character with Enter for each newline,
\* ends complete with buffer = target, no wrong character, an empty
\* histogram and accuracy 100.
C9_ExactTypingIsPerfect ==
    (/\ target_text # <<>>
     /\ NoLeadingWhitespace(target_text)
     /\ TAB \notin Range(target_text)
     /\ ExactlyTyped
     /\ ScriptEnded) => TypedPerfectly

\* C9, amended: the same for targets that also hold no carriage return, no
\* DEL (127) and no ETX (3): the loop reads those three as Enter, backspace
\* and interrupt, never as text.
C9_ExactTypingOfPlainText ==
    (/\ target_text # <<>>
     /\ NoLeadingWhitespace(target_text)
     /\ Range(target_text) \cap {TAB, CR, DEL, ETX} = {}
     /\ ExactlyTyped
     /\ ScriptEnded) => TypedPerfectly

\* scenario A has run to completion
C9_Witness ==
    /\ target_text = ScenarioA
    /\ ExactlyTyped
    /\ pc = "done"
    /\ typed_text = ScenarioA
    /\ metrics[1].correct_chars = 5
    /\ metrics[1].accuracy = <<500, 5>>

\* Number of lines of a text: one more than its newlines.
NumLines(t) == 1 + Cardinality({i \in 1..Len(t) : t[i] = NL})

\* C10: for every target, cursor position in 0..len(target) and terminal
\* height, calculate_scroll_window returns start >= 0 and end <= number of
\* lines; when the lines number at most W = height - 5, start = 0.
C10_ScrollWindowInRange ==
    scroll # <<>> =>
      LET W == scroll[1].terminal_height - 5
          start == scroll[1].window[1]
          end == scroll[1].window[2]
      IN /\ start >= 0
         /\ end <= NumLines(target_text)
         /\ NumLines(target_text) <= W => start = 0

\* a three-line text in a window of four lines, cursor at the end
C10_Witness ==
    /\ scroll # <<>>
    /\ NumLines(target_text) = 3
    /\ scroll[1].terminal_height = 9
    /\ scroll[1].pos = Len(target_text)
    /\ scroll[1].window = <<0, 3>>

\* C11: for every target, cursor position in 0..len(target) and window
\* size W >= 0, the window is fully populated: end - start = min(W, number
\* of lines).
C11_ScrollWindowFull ==
    (scroll # <<>> /\ scroll[1].terminal_height >= 5) =>
      LET W == scroll[1].terminal_height - 5
      IN scroll[1].window[2] - scroll[1].window[1]
           = (IF W < NumLines(target_text) THEN W ELSE NumLines(target_text))

\* cursor on the last of four lines, room for three: the window is pulled
\* back to lines 1..3
C11_Witness ==
    /\ scroll # <<>>
    /\ NumLines(target_text) = 4
    /\ scroll[1].terminal_height = 8
    /\ scroll[1].pos = Len(target_text)
    /\ scroll[1].window = <<1, 4>>

\* C12: an interrupt read before the first key or while active cancels the
\* session: nothing changes typed_text, cursor, counters or histogram
\* afterwards, and metrics are never computed on a cancelled session.
C12_InterruptCancels ==
    /\ [](pc = "cancelled" => metrics = <<>>)
    /\ [][(InLoop /\ char' = ETX) =>
            /\ pc' = "cancelled"
            /\ UNCHANGED <<typed_text, current_pos, all_typed_chars,
                           wrong_typed_chars, missed_chars, metrics>>]_vars
    /\ [][pc = "cancelled" =>
            /\ pc' = "cancelled"
            /\ UNCHANGED <<typed_text, current_pos, all_typed_chars,
                           wrong_typed_chars, missed_chars, metrics>>]_vars

\* cancelled in the middle of a session, with a wrong character on record
C12_Witness ==
    /\ pc = "cancelled"
    /\ char = ETX
    /\ typed_text # <<>>
    /\ wrong_typed_chars >= 1
    /\ metrics = <<>>

\* C13: for every target, the empty one included, and every key sequence
\* without an interrupt the session never faults: at the end of the target
\* metrics are computed once (accuracy 0 when nothing was typed, wpm 0 when
\* no time elapsed) and the run ends in success.
C13_NeverFaults ==
    /\ pc # "error"
    /\ pc = "done" =>
         /\ Len(metrics) = 1
         /\ metrics[1].all_typed_chars = 0 => metrics[1].accuracy[1] = 0
         /\ metrics[1].time = 0 => metrics[1].wpm[1] = 0

\* C14: wpm = ((allTypedChars - wrongTypedChars) / 5) / elapsedMinutes with
\* no further factor, 0 when no time elapsed; so it depends on
\* allTypedChars, wrongTypedChars and the elapsed time alone.
C14_WpmFormula ==
    pc = "done" =>
      IF metrics[1].time = 0
      THEN metrics[1].wpm[1] = 0
      ELSE metrics[1].wpm[1] * 5 * metrics[1].time
             = (all_typed_chars - wrong_typed_chars) * 60 * metrics[1].wpm[2]

\* The number of newlines at offsets below o: the index of the line that
\* holds offset o, a newline belonging to the line it ends.
NewlinesBefore(t, o) == Cardinality({q \in 1..o : q <= Len(t) /\ t[q] = NL})

\* The offsets of the characters of line number n, its newline left out.
OffsetsOfLine(t, n) ==
    {o \in 0..(Len(t) - 1) : t[o + 1] # NL /\ NewlinesBefore(t, o) = n}

ClassOf(typed, cursor, o) ==
    IF o < Len(typed) /\ typed[o + 1] = target_text[o + 1] THEN "Correct"
    ELSE IF o < Len(typed) THEN "Incorrect"
    ELSE IF o = cursor THEN "PendingCursor"
    ELSE "Untouched"

\* C15: every frame shows the lines start_line .. end_line - 1 in order; a
\* row shows the characters of its line from left to right, each at its
\* offset in the target (the newlines of the lines above the window
\* counted), classified Correct, Incorrect, PendingCursor or Untouched by
\* the typed buffer and the cursor; the row ends with a PendingCursor
\* end-of-line marker exactly when the newline that ends its line is at the
\* cursor.
C15_FrameClassification ==
    frame # <<>> =>
      LET f == frame[1] IN
      /\ Len(f.rows) = Max(0, f.end_line - f.start_line)
      /\ \A r \in 1..Len(f.rows) :
           LET row == f.rows[r] IN
           /\ row.line_idx = f.start_line + r - 1
           /\ {row.cells[k].abs_pos : k \in 1..Len(row.cells)}
                = OffsetsOfLine(target_text, row.line_idx)
           /\ \A k \in 1..(Len(row.cells) - 1) :
                 row.cells[k + 1].abs_pos = row.cells[k].abs_pos + 1
           /\ \A k \in 1..Len(row.cells) :
                 row.cells[k].class
                   = ClassOf(f.typed_text, f.current_pos, row.cells[k].abs_pos)
           /\ row.eol <=>
                /\ target_text[f.current_pos + 1] = NL
                /\ NewlinesBefore(target_text, f.current_pos) = row.line_idx

\* a frame whose window starts below the first line and shows a wrongly
\* typed character followed by the character under the cursor
C15_Witness ==
    /\ frame # <<>>
    /\ frame[1].start_line > 0
    /\ \E r \in 1..Len(frame[1].rows) :
         \E k \in 1..(Len(frame[1].rows[r].cells) - 1) :
            /\ frame[1].rows[r].cells[k].class = "Incorrect"
            /\ frame[1].rows[r].cells[k + 1].class = "PendingCursor"

\* The place of character ch in the missed-character dictionary.
MissIndex(ch) ==
    CHOOSE i \in 1..Len(missed_chars) : missed_chars[i][1] = ch

MissedKeys(d) == [i \in 1..Len(d) |-> d[i][1]]

\* C16: a character missed for the first time is recorded after all those
\* missed before; the results list holds min(10, number of missed
\* characters) of the recorded characters with their counts, the counts
\* never increase down the list, and of two characters with equal counts
\* the one recorded first comes first.
C16_HistogramOrder ==
    /\ [][/\ Len(missed_chars') >= Len(missed_chars)
          /\ SubSeq(MissedKeys(missed_chars'), 1, Len(missed_chars))
               = MissedKeys(missed_chars)]_vars
    /\ [](pc = "done" =>
           /\ Len(results) = Min(10, Len(missed_chars))
           /\ \A i \in 1..Len(results) :
                \E j \in 1..Len(missed_chars) : results[i] = missed_chars[j]
           /\ \A i, j \in 1..Len(results) :
                i < j =>
                  \/ results[i][2] > results[j][2]
                  \/ /\ results[i][2] = results[j][2]
                     /\ MissIndex(results[i][1]) < MissIndex(results[j][1]))

\* twelve characters missed, one of them twice: ten are listed, the one
\* missed twice first although it was not the first one missed
C16_Witness ==
    /\ pc = "done"
    /\ Len(missed_chars) = 12
    /\ Len(results) = 10
    /\ results[1][2] = 2
    /\ results[2][2] = 1
    /\ MissIndex(results[1][1]) > MissIndex(results[2][1])

RECURSIVE SumCounts(_)
SumCounts(d) == IF d = <<>> THEN 0 ELSE Head(d)[2] + SumCounts(Tail(d))

\* C17: in every reachable state the counts of the missed-character
\* histogram add up to wrong_typed_chars: every increment of the counter
\* comes with exactly one histogram increment, and none without the other.
C17_HistogramSumsToWrong ==
    /\ [](SumCounts(missed_chars) = wrong_typed_chars)
    /\ [][SumCounts(missed_chars') - SumCounts(missed_chars)
            = wrong_typed_chars' - wrong_typed_chars]_vars

\* a tab one before the end of the target, which checks only one position,
\* after an earlier miss
C17_Witness ==
    /\ char = TAB
    /\ current_pos = Len(target_text) + 1
    /\ wrong_typed_chars = 2
    /\ SumCounts(missed_chars) = 2
    /\ all_typed_chars >= 3

\* C18: Enter read with cursor < len(target) never moves the cursor past
\* len(target): the autoindent block is appended only when the target has
\* that many tabs or spaces after cursor + 1; no printable key does either.
\* So cursor <= len(target) + 1 always, and only a tab reaches
\* len(target) + 1.
C18_OnlyTabOvershoots ==
    /\ [](current_pos <= Len(target_text) + 1)
    /\ [][(InLoop /\ char' \notin {ETX, DEL, TAB}) =>
            /\ current_pos' > current_pos
            /\ current_pos' <= Len(target_text)
            /\ \A p \in (current_pos + 1)..(current_pos' - 1) :
                  target_text[p + 1] \in {TAB, SP}]_vars
    /\ [][(current_pos' = Len(target_text) + 1 /\ current_pos' # current_pos) =>
            (char' = TAB /\ current_pos' = current_pos + 2)]_vars

\* Enter on the last character of " \n \n": the block "\n " ends exactly at
\* the end of the target
C18_Witness ==
    /\ char \in {NL, CR}
    /\ target_text = <<SP, NL, SP>>
    /\ typed_text = <<SP, NL, SP>>
    /\ current_pos = Len(target_text)
    /\ all_typed_chars = 3

\* C19: the positions of the current buffer that match the target, plus
\* wrong_typed_chars, never exceed all_typed_chars; so the accuracy at
\* completion is at most 100 and all_typed_chars - wrong_typed_chars is
\* never negative.
C19_CorrectPlusWrongBounded ==
    /\ Cardinality(CorrectPositions) + wrong_typed_chars <= all_typed_chars
    /\ all_typed_chars - wrong_typed_chars >= 0
    /\ pc = "done" =>
         metrics[1].accuracy[1] <= 100 * metrics[1].accuracy[2]

\* completed after a wrong character was removed and retyped
C19_Witness ==
    /\ pc = "done"
    /\ wrong_typed_chars = 1
    /\ Cardinality(CorrectPositions) = Len(target_text)
    /\ all_typed_chars = Len(target_text) + 1
    /\ Len(target_text) >= 2

\* C20: in every frame drawn on a terminal with room for at least one line
\* of text the cursor is inside the target, the line found for the cursor
\* is the one holding the cursor offset (a cursor on a newline is on the
\* line that newline ends), that line is inside the window, and exactly one
\* cell of the frame, a character or an end-of-line marker, is
\* PendingCursor.
C20_CursorLineShown ==
    (frame # <<>> /\ frame[1].terminal_height - header_lines >= 1) =>
      LET f == frame[1]
          pending_chars ==
            {<<r, k>> \in (1..Len(f.rows)) \X (0..Len(target_text)) :
               /\ k \in 1..Len(f.rows[r].cells)
               /\ f.rows[r].cells[k].class = "PendingCursor"}
          pending_marks == {r \in 1..Len(f.rows) : f.rows[r].eol}
      IN /\ f.current_pos < Len(target_text)
         /\ f.cursor_line = NewlinesBefore(target_text, f.current_pos)
         /\ f.start_line <= f.cursor_line
         /\ f.cursor_line < f.end_line
         /\ Cardinality(pending_chars) + Cardinality(pending_marks) = 1

\* a window of one line, scrolled down, with the cursor on the newline that
\* ends the line shown
C20_Witness ==
    /\ frame # <<>>
    /\ frame[1].terminal_height - header_lines = 1
    /\ frame[1].start_line > 0
    /\ frame[1].end_line < NumLines(target_text)
    /\ frame[1].rows[1].eol

====
